---- MODULE Spec2Model ----
(***************************************************************************)
(* Model of main.py: three wrappers around httpx.AsyncClient, the demo     *)
(* coroutines that use them, and the driver main() that awaits the demos   *)
(* one after another.                                                      *)
(*                                                                         *)
(* A client handle is an httpx.AsyncClient object.  It is "open" from its  *)
(* construction until an awaited aclose() has run on it.  Every demo is a  *)
(* table of labelled statements (Demo1Prog .. Demo13Prog); the Exec*       *)
(* actions give the meaning of each statement kind.                        *)
(***************************************************************************)
EXTENDS Integers, Sequences, FiniteSets, TLC

\* Number of concurrent workers of demo 7 (range(20) in the source), scaled.
NWorkers == 3
\* Longest call sequence applied to the two context-manager wrappers.
MaxCalls == 4

\* Loop counts of the demos.
Demo1Clients == 10
Demo5Clients == 50
Demo6Clients == 10

None == 0

VARIABLES
  mainpc,     \* position of main(): "try", "awaiting", "sleep", "except", "summary", "done", "crashed"
  idx,        \* index in DemoOrder of the demo main() is at
  started,    \* demo numbers whose coroutine was started, in order
  finished,   \* demo numbers whose coroutine returned, in order
  pauses,     \* number of completed asyncio.sleep(1) of main()
  summaries,  \* number of times the final summary was printed
  dpc,        \* label of the next statement of the running demo, "idle" if none
  exc,        \* exception in flight, "none" if none
  excAt,      \* label of the statement that raised exc
  active,     \* demos started and not yet left
  caught,     \* handlers (and async with exits) an exception reached in the running demo
  handles,    \* sequence of all httpx.AsyncClient objects ever constructed
  loc,        \* local variables of the running demo: name -> wrapper object
  clients,    \* the local list "clients" (handle ids)
  iter,       \* items consumed by the running for loop
  withs,      \* handles whose "async with" block is being executed
  workers,    \* demo 7: worker -> [st, client]
  coros,      \* coroutine objects created and never awaited
  trace,      \* wrapper harness: calls applied so far
  fw, fhs, fout,  \* ForgetfulAsyncHTTPClient under the harness, its handles, last outcome
  pw, phs, pout   \* ProperAsyncHTTPClient under the harness, its handles, last outcome

mainVars == <<idx, started, finished, pauses, summaries>>
flowVars == <<mainpc, dpc, exc, excAt, active, caught>>
dataVars == <<handles, loc, clients, iter, withs, workers, coros>>
wrapVars == <<trace, fw, fhs, fout, pw, phs, pout>>
vars == <<mainVars, flowVars, dataVars, wrapVars>>

----------------------------------------------------------------------------
(* httpx.AsyncClient as the source uses it                                 *)

\* httpx.AsyncClient(base_url=..., timeout=5.0): a new open handle.
NewHandle(hs, tag) ==
  Append(hs, [open |-> TRUE, acloses |-> 0, demo |-> tag.demo, how |-> tag.how])

\* await h.aclose(): the handle is closed.
Aclose(hs, h) ==
  [hs EXCEPT ![h] = [@ EXCEPT !.open = FALSE, !.acloses = @ + 1]]

\* h.aclose() without await: a coroutine object is created, its body never runs
\* (variant: the body runs).
AcloseNoAwaitBug(hs, h) == Aclose(hs, h)
AcloseNoAwait(hs, h) == hs

\* await h.get(url): net says whether the network delivers a response.
ClientGet(hs, h, net) ==
  IF h = None THEN "AttributeError"
  ELSE IF ~hs[h].open THEN "RuntimeError"
  ELSE IF net THEN "ok" ELSE "RequestError"

----------------------------------------------------------------------------
(* The wrapper classes                                                     *)

NewWrapper(cls) == [cls |-> cls, client |-> None]

\* BadAsyncHTTPClient.__init__
BadInit(hs, tag) ==
  [self |-> [cls |-> "Bad", client |-> Len(hs) + 1], hs |-> NewHandle(hs, tag), out |-> "ok"]

\* ForgetfulAsyncHTTPClient.__aenter__
ForgetfulAenter(self, hs, tag) ==
  [self |-> [self EXCEPT !.client = Len(hs) + 1], hs |-> NewHandle(hs, tag), out |-> "ok"]

\* Variant: __aexit__ returns without closing the client.
ForgetfulAexitNoClose(self, hs) ==
  [self |-> self, hs |-> hs, out |-> IF self.client = None THEN "AttributeError" ELSE "ok"]

\* ForgetfulAsyncHTTPClient.__aexit__
ForgetfulAexit(self, hs) ==
  IF self.client = None
    THEN [self |-> self, hs |-> hs, out |-> "AttributeError"]
    ELSE [self |-> self, hs |-> Aclose(hs, self.client), out |-> "ok"]

\* Variant: get returns quietly when the wrapper holds no client.
ForgetfulGetGuarded(self, hs, net) ==
  [self |-> self, hs |-> hs,
   out |-> IF self.client = None THEN "ok" ELSE ClientGet(hs, self.client, net)]

\* ForgetfulAsyncHTTPClient.get
ForgetfulGet(self, hs, net) ==
  [self |-> self, hs |-> hs, out |-> ClientGet(hs, self.client, net)]

\* ProperAsyncHTTPClient.__aenter__
ProperAenter(self, hs, tag) ==
  [self |-> [self EXCEPT !.client = Len(hs) + 1], hs |-> NewHandle(hs, tag), out |-> "ok"]

\* Variant: __aexit__ tests the client and then forgets to close it.
ProperAexitNoClose(self, hs) ==
  [self |-> self, hs |-> hs, out |-> "ok"]

\* ProperAsyncHTTPClient.__aexit__
ProperAexit(self, hs) ==
  IF self.client # None
    THEN [self |-> self, hs |-> Aclose(hs, self.client), out |-> "ok"]
    ELSE [self |-> self, hs |-> hs, out |-> "ok"]

\* ProperAsyncHTTPClient.get
ProperGet(self, hs, net) ==
  [self |-> self, hs |-> hs, out |-> ClientGet(hs, self.client, net)]

\* BadAsyncHTTPClient.get
BadGet(self, hs, net) ==
  [self |-> self, hs |-> hs, out |-> ClientGet(hs, self.client, net)]

\* Dynamic dispatch on the wrapper's class.
Aenter(self, hs, tag) ==
  IF self.cls = "Proper" THEN ProperAenter(self, hs, tag) ELSE ForgetfulAenter(self, hs, tag)

Aexit(self, hs) ==
  IF self.cls = "Proper" THEN ProperAexit(self, hs) ELSE ForgetfulAexit(self, hs)

Get(self, hs, net) ==
  IF self.cls = "Proper" THEN ProperGet(self, hs, net)
  ELSE IF self.cls = "Bad" THEN BadGet(self, hs, net)
  ELSE ForgetfulGet(self, hs, net)

----------------------------------------------------------------------------
(* Statements of the demo coroutines                                       *)

AllExc == {"ValueError", "AttributeError", "RuntimeError", "RequestError", "EnvError"}

\* The except clauses that guard a statement: the kinds caught and the handler.
NoCatch == [kinds |-> {}, to |-> "-"]
Catch(kinds, to) == [kinds |-> kinds, to |-> to]

St(op, var, cls, next, alt, n, r, catch) ==
  [op |-> op, var |-> var, cls |-> cls, next |-> next, alt |-> alt, n |-> n, r |-> r,
   catch |-> catch]

\* x = get_process_info()
Snap(next, catch) == St("snap", "-", "-", next, "-", 0, 0, catch)
\* var = BadAsyncHTTPClient(url)
NewBad(var, next, catch) == St("newbad", var, "Bad", next, "-", 0, 0, catch)
\* var = ForgetfulAsyncHTTPClient(url)
New(var, cls, next) == St("new", var, cls, next, "-", 0, 0, NoCatch)
\* var.client = httpx.AsyncClient(...)
Attach(var, next) == St("attach", var, "-", next, "-", 0, 0, NoCatch)
\* var = httpx.AsyncClient(...)
Raw(var, next) == St("raw", var, "httpx", next, "-", 0, 0, NoCatch)
\* clients.append(var)
AppendTo(var, next) == St("append", var, "-", next, "-", 0, 0, NoCatch)
\* await var.__aenter__()
CallAenter(var, next) == St("aenter", var, "-", next, "-", 0, 0, NoCatch)
\* async with cls(url) as var:
With(var, cls, next, catch) == St("with", var, cls, next, "-", 0, 0, catch)
\* the end of an async with block, reached normally or by an exception
EndWith(var, next, catch) == St("endwith", var, "-", next, "-", 0, 0, catch)
\* await var.get(url)
GetSt(var, next, catch) == St("get", var, "-", next, "-", 0, 0, catch)
\* await var.client.aclose()  /  await var.aclose()
AwaitAclose(var, next, catch) == St("aclose", var, "-", next, "-", 0, 0, catch)
\* var.aclose()   (no await)
NoAwaitAclose(var, next) == St("noawait", var, "-", next, "-", 0, 0, NoCatch)
\* raise kind(...); next is the statement written after the raise
RaiseSt(kind, next, catch) == St("raise", "-", "-", next, kind, 0, 0, catch)
\* except ...: body
Except(next) == St("except", "-", "-", next, "-", 0, 0, NoCatch)
\* del var / clients.clear(); gc.collect(); await asyncio.sleep(...)
Gc(var, next) == St("gc", var, "-", next, "-", 0, 0, NoCatch)
\* await asyncio.sleep(...)
Sleep(next) == St("sleep", "-", "-", next, "-", 0, 0, NoCatch)
\* for i in range(n): body ... ; exit
For(n, body, exit) == St("for", "-", "-", exit, body, n, 0, NoCatch)
\* for var in clients: body ... ; exit
ForIn(var, body, exit) == St("forin", var, "-", exit, body, 0, 0, NoCatch)
\* if i % n == r: then ... ; else
IfMod(n, r, then, else) == St("ifmod", "-", "-", else, then, n, r, NoCatch)
\* results = await asyncio.gather(*[bad_worker(i) for i in range(N)])
Gather(next) == St("gather", "-", "-", next, "-", 0, 0, NoCatch)
Gathered(next) == St("gathered", "-", "-", next, "-", 0, 0, NoCatch)
\* the end of the coroutine
Ret == St("ret", "-", "-", "-", "-", 0, 0, NoCatch)

Demo1Prog ==
  ("d1_initial"  :> Snap("d1_for", NoCatch)) @@
  ("d1_for"      :> For(Demo1Clients, "d1_new", "d1_during")) @@
  ("d1_new"      :> NewBad("client", "d1_append", NoCatch)) @@
  ("d1_append"   :> AppendTo("client", "d1_for")) @@
  ("d1_during"   :> Snap("d1_gc", NoCatch)) @@
  ("d1_gc"       :> Gc("clients", "d1_aftergc")) @@
  ("d1_aftergc"  :> Snap("d1_ret", NoCatch)) @@
  ("d1_ret"      :> Ret)

Demo2Prog ==
  ("d2_initial"  :> Snap("d2_new", NoCatch)) @@
  ("d2_new"      :> New("client", "Forgetful", "d2_aenter")) @@
  ("d2_aenter"   :> CallAenter("client", "d2_during")) @@
  ("d2_during"   :> Snap("d2_gc", NoCatch)) @@
  ("d2_gc"       :> Gc("client", "d2_after")) @@
  ("d2_after"    :> Snap("d2_ret", NoCatch)) @@
  ("d2_ret"      :> Ret)

\* Variant: the except clause names another exception class.
Demo3TryWrongKind == Catch({"AttributeError"}, "d3_except")

\* try: ... except ValueError as e: of demo 3
Demo3Try == Catch({"ValueError"}, "d3_except")

\* Variant: the cleanup is written before the raise.
Demo3ProgCleanupFirst ==
  ("d3_initial"  :> Snap("d3_new", NoCatch)) @@
  ("d3_new"      :> NewBad("client", "d3_during", Demo3Try)) @@
  ("d3_during"   :> Snap("d3_aclose", Demo3Try)) @@
  ("d3_aclose"   :> AwaitAclose("client", "d3_raise", Demo3Try)) @@
  ("d3_raise"    :> RaiseSt("ValueError", "d3_gc", Demo3Try)) @@
  ("d3_except"   :> Except("d3_gc")) @@
  ("d3_gc"       :> Gc("-", "d3_after")) @@
  ("d3_after"    :> Snap("d3_ret", NoCatch)) @@
  ("d3_ret"      :> Ret)

Demo3Prog ==
  ("d3_initial"  :> Snap("d3_new", NoCatch)) @@
  ("d3_new"      :> NewBad("client", "d3_during", Demo3Try)) @@
  ("d3_during"   :> Snap("d3_raise", Demo3Try)) @@
  ("d3_raise"    :> RaiseSt("ValueError", "d3_aclose", Demo3Try)) @@
  ("d3_aclose"   :> AwaitAclose("client", "d3_gc", Demo3Try)) @@
  ("d3_except"   :> Except("d3_gc")) @@
  ("d3_gc"       :> Gc("-", "d3_after")) @@
  ("d3_after"    :> Snap("d3_ret", NoCatch)) @@
  ("d3_ret"      :> Ret)

Demo4Prog ==
  ("d4_initial"  :> Raw("client", "d4_abandon")) @@
  ("d4_abandon"  :> Gc("client", "d4_sleep")) @@
  ("d4_sleep"    :> Gc("-", "d4_ret")) @@
  ("d4_ret"      :> Ret)

Demo5Prog ==
  ("d5_initial"  :> Snap("d5_for", NoCatch)) @@
  ("d5_for"      :> For(Demo5Clients, "d5_new", "d5_final")) @@
  ("d5_new"      :> Raw("client", "d5_append")) @@
  ("d5_append"   :> AppendTo("client", "d5_if")) @@
  ("d5_if"       :> IfMod(10, 9, "d5_current", "d5_for")) @@
  ("d5_current"  :> Snap("d5_for", NoCatch)) @@
  ("d5_final"    :> Snap("d5_forin", NoCatch)) @@
  ("d5_forin"    :> ForIn("client", "d5_aclose", "d5_ret")) @@
  ("d5_aclose"   :> AwaitAclose("client", "d5_forin", NoCatch)) @@
  ("d5_ret"      :> Ret)

Demo6Prog ==
  ("d6_initial"  :> Snap("d6_for", NoCatch)) @@
  ("d6_for"      :> For(Demo6Clients, "d6_with", "d6_gc")) @@
  ("d6_with"     :> With("client", "Proper", "d6_endwith", NoCatch)) @@
  ("d6_endwith"  :> EndWith("client", "d6_if", NoCatch)) @@
  ("d6_if"       :> IfMod(3, 2, "d6_current", "d6_for")) @@
  ("d6_current"  :> Snap("d6_for", NoCatch)) @@
  ("d6_gc"       :> Gc("-", "d6_final")) @@
  ("d6_final"    :> Snap("d6_ret", NoCatch)) @@
  ("d6_ret"      :> Ret)

Demo7Prog ==
  ("d7_initial"  :> Snap("d7_gather", NoCatch)) @@
  ("d7_gather"   :> Gather("d7_gathered")) @@
  ("d7_gathered" :> Gathered("d7_gc")) @@
  ("d7_gc"       :> Gc("-", "d7_after")) @@
  ("d7_after"    :> Snap("d7_ret", NoCatch)) @@
  ("d7_ret"      :> Ret)

Demo8Prog ==
  ("d8_initial"  :> Snap("d8_raw", NoCatch)) @@
  ("d8_raw"      :> Raw("client", "d8_noawait")) @@
  ("d8_noawait"  :> NoAwaitAclose("client", "d8_gc")) @@
  ("d8_gc"       :> Gc("-", "d8_after")) @@
  ("d8_after"    :> Snap("d8_aclose", NoCatch)) @@
  ("d8_aclose"   :> AwaitAclose("client", "d8_ret", NoCatch)) @@
  ("d8_ret"      :> Ret)

\* The two except clauses of the first try (AttributeError, Exception) only
\* print and continue at the same statement: they are one handler here.
Demo11Prog ==
  ("d11_initial"  :> Snap("d11_new", NoCatch)) @@
  ("d11_new"      :> New("client", "Forgetful", "d11_get1")) @@
  ("d11_get1"     :> GetSt("client", "d11_new2", Catch(AllExc, "d11_except1"))) @@
  ("d11_except1"  :> Except("d11_new2")) @@
  ("d11_new2"     :> New("client2", "Forgetful", "d11_attach2")) @@
  ("d11_attach2"  :> Attach("client2", "d11_during")) @@
  ("d11_during"   :> Snap("d11_get2", NoCatch)) @@
  ("d11_get2"     :> GetSt("client2", "d11_gc", Catch(AllExc, "d11_except2"))) @@
  ("d11_except2"  :> Except("d11_gc")) @@
  ("d11_gc"       :> Gc("-", "d11_after")) @@
  ("d11_after"    :> Snap("d11_initial2", NoCatch)) @@
  ("d11_initial2" :> Snap("d11_with3", NoCatch)) @@
  ("d11_with3"    :> With("client3", "Forgetful", "d11_during2", Catch(AllExc, "d11_except3"))) @@
  ("d11_during2"  :> Snap("d11_get3", Catch(AllExc, "d11_endwith3"))) @@
  ("d11_get3"     :> GetSt("client3", "d11_endwith3", Catch(AllExc, "d11_endwith3"))) @@
  ("d11_endwith3" :> EndWith("client3", "d11_gc2", Catch(AllExc, "d11_except3"))) @@
  ("d11_except3"  :> Except("d11_gc2")) @@
  ("d11_gc2"      :> Gc("-", "d11_after2")) @@
  ("d11_after2"   :> Snap("d11_ret", NoCatch)) @@
  ("d11_ret"      :> Ret)

Demo12Prog ==
  ("d12_initial"   :> Snap("d12_new", NoCatch)) @@
  ("d12_new"       :> New("client", "Forgetful", "d12_attach")) @@
  ("d12_attach"    :> Attach("client", "d12_get1")) @@
  ("d12_get1"      :> GetSt("client", "d12_aclose", Catch(AllExc, "d12_except1"))) @@
  ("d12_aclose"    :> AwaitAclose("client", "d12_afterbad", Catch(AllExc, "d12_except1"))) @@
  ("d12_except1"   :> Except("d12_afterbad")) @@
  ("d12_afterbad"  :> Snap("d12_initial2", NoCatch)) @@
  ("d12_initial2"  :> Snap("d12_with2", NoCatch)) @@
  ("d12_with2"     :> With("client2", "Forgetful", "d12_get2", Catch(AllExc, "d12_except2"))) @@
  ("d12_get2"      :> GetSt("client2", "d12_endwith2", Catch(AllExc, "d12_endwith2"))) @@
  ("d12_endwith2"  :> EndWith("client2", "d12_gc", Catch(AllExc, "d12_except2"))) @@
  ("d12_except2"   :> Except("d12_gc")) @@
  ("d12_gc"        :> Gc("-", "d12_aftergood")) @@
  ("d12_aftergood" :> Snap("d12_ret", NoCatch)) @@
  ("d12_ret"       :> Ret)

Demo13Prog ==
  ("d13_initial"    :> Snap("d13_new", NoCatch)) @@
  ("d13_new"        :> New("client", "Forgetful", "d13_attach")) @@
  ("d13_attach"     :> Attach("client", "d13_during")) @@
  ("d13_during"     :> Snap("d13_get", NoCatch)) @@
  ("d13_get"        :> GetSt("client", "d13_sleep", Catch(AllExc, "d13_except"))) @@
  ("d13_except"     :> Except("d13_sleep")) @@
  ("d13_sleep"      :> Sleep("d13_after")) @@
  ("d13_after"      :> Snap("d13_aclose", NoCatch)) @@
  ("d13_aclose"     :> AwaitAclose("client", "d13_sleep2", NoCatch)) @@
  ("d13_sleep2"     :> Sleep("d13_afterclose")) @@
  ("d13_afterclose" :> Snap("d13_ret", NoCatch)) @@
  ("d13_ret"        :> Ret)

Prog ==
  Demo1Prog @@ Demo2Prog @@ Demo3Prog @@ Demo4Prog @@ Demo5Prog @@ Demo6Prog @@
  Demo7Prog @@ Demo8Prog @@ Demo11Prog @@ Demo12Prog @@ Demo13Prog

\* The first statement of each demo coroutine.
Entry ==
  (1 :> "d1_initial") @@ (2 :> "d2_initial") @@ (3 :> "d3_initial") @@
  (4 :> "d4_initial") @@ (5 :> "d5_initial") @@ (6 :> "d6_initial") @@
  (7 :> "d7_initial") @@ (8 :> "d8_initial") @@ (11 :> "d11_initial") @@
  (12 :> "d12_initial") @@ (13 :> "d13_initial")

----------------------------------------------------------------------------
(* The driver                                                              *)

AwaitDemo(d) == [op |-> "demo", d |-> d]
AwaitSleep == [op |-> "sleep", d |-> 0]

\* Variant: main() stops one demo early.
MainProgShort ==
  << AwaitDemo(1), AwaitSleep, AwaitDemo(2), AwaitSleep, AwaitDemo(3), AwaitSleep,
     AwaitDemo(4), AwaitSleep, AwaitDemo(5), AwaitSleep, AwaitDemo(6), AwaitSleep,
     AwaitDemo(7), AwaitSleep, AwaitDemo(8), AwaitSleep, AwaitDemo(11), AwaitSleep,
     AwaitDemo(12) >>

\* Variant: the pause between demo 2 and demo 3 is missing.
MainProgNoPause ==
  << AwaitDemo(1), AwaitSleep, AwaitDemo(2), AwaitDemo(3), AwaitSleep,
     AwaitDemo(4), AwaitSleep, AwaitDemo(5), AwaitSleep, AwaitDemo(6), AwaitSleep,
     AwaitDemo(7), AwaitSleep, AwaitDemo(8), AwaitSleep, AwaitDemo(11), AwaitSleep,
     AwaitDemo(12), AwaitSleep, AwaitDemo(13) >>

\* The body of the try block of main().
MainProg ==
  << AwaitDemo(1), AwaitSleep, AwaitDemo(2), AwaitSleep, AwaitDemo(3), AwaitSleep,
     AwaitDemo(4), AwaitSleep, AwaitDemo(5), AwaitSleep, AwaitDemo(6), AwaitSleep,
     AwaitDemo(7), AwaitSleep, AwaitDemo(8), AwaitSleep, AwaitDemo(11), AwaitSleep,
     AwaitDemo(12), AwaitSleep, AwaitDemo(13) >>

\* Variant: main() catches ValueError only.
MainCatchesValueErrorOnly(kind) == kind = "ValueError"

\* except Exception as e: every exception kind of the model derives from Exception.
MainCatches(kind) == kind \in AllExc

\* Where main() continues after statement i of the try block.
MainAfter(i) == IF i < Len(MainProg) THEN "try" ELSE "summary"

CurDemo == MainProg[idx].d
Op == IF dpc \in DOMAIN Prog THEN Prog[dpc].op ELSE "none"
Cur == Prog[dpc]
Tag(how) == [demo |-> CurDemo, how |-> how]

NoObj == [cls |-> "none", client |-> None]
EmptyLoc == [v \in {"client", "client2", "client3"} |-> NoObj]
NoWorkers == [w \in 1..NWorkers |-> [st |-> "none", client |-> None]]

----------------------------------------------------------------------------
(* Control transfer inside a demo                                          *)

Goto(l) ==
  /\ dpc' = l
  /\ UNCHANGED <<mainpc, exc, excAt, active, caught>>

\* An exception of the given kind leaves the statement at dpc: it reaches the
\* handler of the enclosing try if that catches the kind, and main() otherwise.
Throw(kind, at) ==
  /\ exc' = kind
  /\ excAt' = at
  /\ IF kind \in Cur.catch.kinds
       THEN /\ dpc' = Cur.catch.to
            /\ caught' = caught \cup {Cur.catch.to}
            /\ UNCHANGED <<mainpc, active>>
       ELSE /\ dpc' = "idle"
            /\ caught' = caught
            /\ active' = active \ {CurDemo}
            /\ mainpc' = IF MainCatches(kind) THEN "except" ELSE "crashed"

----------------------------------------------------------------------------
(* Statements                                                              *)

\* get_process_info(): psutil reads the OS counters, or raises.
ExecSnap ==
  /\ Op = "snap"
  /\ \E ok \in BOOLEAN : IF ok THEN Goto(Cur.next) ELSE Throw("EnvError", dpc)
  /\ UNCHANGED <<mainVars, dataVars, wrapVars>>

ExecNewBad ==
  /\ Op = "newbad"
  /\ LET r == BadInit(handles, Tag("init")) IN
       /\ handles' = r.hs
       /\ loc' = [loc EXCEPT ![Cur.var] = r.self]
  /\ Goto(Cur.next)
  /\ UNCHANGED <<mainVars, clients, iter, withs, workers, coros, wrapVars>>

ExecNew ==
  /\ Op = "new"
  /\ loc' = [loc EXCEPT ![Cur.var] = NewWrapper(Cur.cls)]
  /\ Goto(Cur.next)
  /\ UNCHANGED <<mainVars, handles, clients, iter, withs, workers, coros, wrapVars>>

ExecAttach ==
  /\ Op = "attach"
  /\ handles' = NewHandle(handles, Tag("attach"))
  /\ loc' = [loc EXCEPT ![Cur.var].client = Len(handles) + 1]
  /\ Goto(Cur.next)
  /\ UNCHANGED <<mainVars, clients, iter, withs, workers, coros, wrapVars>>

ExecRaw ==
  /\ Op = "raw"
  /\ handles' = NewHandle(handles, Tag("raw"))
  /\ loc' = [loc EXCEPT ![Cur.var] = [cls |-> "httpx", client |-> Len(handles) + 1]]
  /\ Goto(Cur.next)
  /\ UNCHANGED <<mainVars, clients, iter, withs, workers, coros, wrapVars>>

ExecAppend ==
  /\ Op = "append"
  /\ clients' = Append(clients, loc[Cur.var].client)
  /\ Goto(Cur.next)
  /\ UNCHANGED <<mainVars, handles, loc, iter, withs, workers, coros, wrapVars>>

ExecAenter ==
  /\ Op = "aenter"
  /\ LET r == Aenter(loc[Cur.var], handles, Tag("aenter")) IN
       /\ handles' = r.hs
       /\ loc' = [loc EXCEPT ![Cur.var] = r.self]
  /\ Goto(Cur.next)
  /\ UNCHANGED <<mainVars, clients, iter, withs, workers, coros, wrapVars>>

\* async with cls(url) as var: the wrapper is constructed, __aenter__ awaited,
\* its result bound to var.
ExecWith ==
  /\ Op = "with"
  /\ LET r == Aenter(NewWrapper(Cur.cls), handles, Tag("with")) IN
       /\ handles' = r.hs
       /\ loc' = [loc EXCEPT ![Cur.var] = r.self]
       /\ withs' = withs \cup {r.self.client}
  /\ Goto(Cur.next)
  /\ UNCHANGED <<mainVars, clients, iter, workers, coros, wrapVars>>

\* Leaving an async with block: __aexit__ is awaited; it returns None, so an
\* exception that ended the block is raised again after it.
ExecEndWith ==
  /\ Op = "endwith"
  /\ LET r == Aexit(loc[Cur.var], handles) IN
       /\ handles' = r.hs
       /\ withs' = withs \ {loc[Cur.var].client}
       /\ IF r.out # "ok" THEN Throw(r.out, dpc)
          ELSE IF exc # "none" THEN Throw(exc, excAt)
          ELSE Goto(Cur.next)
  /\ UNCHANGED <<mainVars, loc, clients, iter, workers, coros, wrapVars>>

ExecGet ==
  /\ Op = "get"
  /\ \E net \in BOOLEAN :
       LET r == Get(loc[Cur.var], handles, net) IN
         IF r.out = "ok" THEN Goto(Cur.next) ELSE Throw(r.out, dpc)
  /\ UNCHANGED <<mainVars, dataVars, wrapVars>>

ExecAclose ==
  /\ Op = "aclose"
  /\ handles' = Aclose(handles, loc[Cur.var].client)
  /\ Goto(Cur.next)
  /\ UNCHANGED <<mainVars, loc, clients, iter, withs, workers, coros, wrapVars>>

ExecNoAwait ==
  /\ Op = "noawait"
  /\ handles' = AcloseNoAwait(handles, loc[Cur.var].client)
  /\ coros' = coros + 1
  /\ Goto(Cur.next)
  /\ UNCHANGED <<mainVars, loc, clients, iter, withs, workers, wrapVars>>

ExecRaise ==
  /\ Op = "raise"
  /\ Throw(Cur.alt, dpc)
  /\ UNCHANGED <<mainVars, dataVars, wrapVars>>

ExecExcept ==
  /\ Op = "except"
  /\ exc' = "none"
  /\ excAt' = "-"
  /\ dpc' = Cur.next
  /\ UNCHANGED <<mainpc, active, caught, mainVars, dataVars, wrapVars>>

\* References are dropped and the collector runs: no handle is closed by it.
ExecGc ==
  /\ Op = "gc"
  /\ loc' = IF Cur.var \in DOMAIN loc THEN [loc EXCEPT ![Cur.var] = NoObj] ELSE loc
  /\ clients' = IF Cur.var = "clients" THEN <<>> ELSE clients
  /\ Goto(Cur.next)
  /\ UNCHANGED <<mainVars, handles, iter, withs, workers, coros, wrapVars>>

ExecSleep ==
  /\ Op = "sleep"
  /\ Goto(Cur.next)
  /\ UNCHANGED <<mainVars, dataVars, wrapVars>>

ExecFor ==
  /\ Op = "for"
  /\ IF iter < Cur.n
       THEN iter' = iter + 1 /\ Goto(Cur.alt)
       ELSE iter' = 0 /\ Goto(Cur.next)
  /\ UNCHANGED <<mainVars, handles, loc, clients, withs, workers, coros, wrapVars>>

\* Variant: the loop stops one item early.
ExecForInSkipLast ==
  /\ Op = "forin"
  /\ IF iter < Len(clients) - 1
       THEN /\ iter' = iter + 1
            /\ loc' = [loc EXCEPT ![Cur.var] = [cls |-> "httpx", client |-> clients[iter + 1]]]
            /\ Goto(Cur.alt)
       ELSE /\ iter' = 0
            /\ loc' = loc
            /\ Goto(Cur.next)
  /\ UNCHANGED <<mainVars, handles, clients, withs, workers, coros, wrapVars>>

ExecForIn ==
  /\ Op = "forin"
  /\ IF iter < Len(clients)
       THEN /\ iter' = iter + 1
            /\ loc' = [loc EXCEPT ![Cur.var] = [cls |-> "httpx", client |-> clients[iter + 1]]]
            /\ Goto(Cur.alt)
       ELSE /\ iter' = 0
            /\ loc' = loc
            /\ Goto(Cur.next)
  /\ UNCHANGED <<mainVars, handles, clients, withs, workers, coros, wrapVars>>

\* if i % n == r, where i is the index of the running iteration
ExecIfMod ==
  /\ Op = "ifmod"
  /\ IF (iter - 1) % Cur.n = Cur.r THEN Goto(Cur.alt) ELSE Goto(Cur.next)
  /\ UNCHANGED <<mainVars, dataVars, wrapVars>>

----------------------------------------------------------------------------
(* Demo 7: asyncio.gather over the bad_worker coroutines                   *)

ExecGather ==
  /\ Op = "gather"
  /\ workers' = [w \in 1..NWorkers |-> [st |-> "new", client |-> None]]
  /\ Goto(Cur.next)
  /\ UNCHANGED <<mainVars, handles, loc, clients, iter, withs, coros, wrapVars>>

\* bad_worker up to its await: the worker's own client is constructed.
WorkerStart(w) ==
  /\ Op = "gathered"
  /\ workers[w].st = "new"
  /\ handles' = NewHandle(handles, Tag("worker"))
  /\ workers' = [workers EXCEPT ![w] = [st |-> "sleeping", client |-> Len(handles) + 1]]
  /\ UNCHANGED <<mainVars, flowVars, loc, clients, iter, withs, coros, wrapVars>>

\* Variant: the worker closes its client before it returns.
WorkerWakeClosing(w) ==
  /\ Op = "gathered"
  /\ workers[w].st = "sleeping"
  /\ workers' = [workers EXCEPT ![w].st = "done"]
  /\ handles' = Aclose(handles, workers[w].client)
  /\ UNCHANGED <<mainVars, flowVars, loc, clients, iter, withs, coros, wrapVars>>

\* bad_worker after its sleep: it returns its id, the client is not closed.
WorkerWake(w) ==
  /\ Op = "gathered"
  /\ workers[w].st = "sleeping"
  /\ workers' = [workers EXCEPT ![w].st = "done"]
  /\ UNCHANGED <<mainVars, flowVars, handles, loc, clients, iter, withs, coros, wrapVars>>

\* gather's future is done when every worker is (variant: when one is).
GatherReadyAny(ws) == \E w \in DOMAIN ws : ws[w].st = "done"
GatherReady(ws) == \A w \in DOMAIN ws : ws[w].st = "done"

ExecGathered ==
  /\ Op = "gathered"
  /\ GatherReady(workers)
  /\ Goto(Cur.next)
  /\ UNCHANGED <<mainVars, dataVars, wrapVars>>

ExecRet ==
  /\ Op = "ret"
  /\ dpc' = "idle"
  /\ active' = active \ {CurDemo}
  /\ finished' = Append(finished, CurDemo)
  /\ idx' = idx + 1
  /\ mainpc' = MainAfter(idx)
  /\ UNCHANGED <<exc, excAt, caught, started, pauses, summaries, dataVars, wrapVars>>

----------------------------------------------------------------------------
(* main()                                                                  *)

\* await demo_k(): the coroutine is started and main() waits for it.
MainAwaitDemo ==
  /\ mainpc = "try"
  /\ MainProg[idx].op = "demo"
  /\ started' = Append(started, CurDemo)
  /\ active' = active \cup {CurDemo}
  /\ dpc' = Entry[CurDemo]
  /\ mainpc' = "awaiting"
  /\ loc' = EmptyLoc
  /\ clients' = <<>>
  /\ iter' = 0
  /\ withs' = {}
  /\ workers' = NoWorkers
  /\ caught' = {}
  /\ UNCHANGED <<idx, finished, pauses, summaries, exc, excAt, handles, coros, wrapVars>>

\* await asyncio.sleep(1)
MainSleep ==
  /\ mainpc = "try"
  /\ MainProg[idx].op = "sleep"
  /\ pauses' = pauses + 1
  /\ idx' = idx + 1
  /\ mainpc' = MainAfter(idx)
  /\ UNCHANGED <<started, finished, summaries, dpc, exc, excAt, active, caught, dataVars, wrapVars>>

\* Variant: after the error is printed main() resumes the try block.
MainExceptResume ==
  /\ mainpc = "except"
  /\ mainpc' = MainAfter(idx)
  /\ idx' = idx + 1
  /\ exc' = "none"
  /\ excAt' = "-"
  /\ UNCHANGED <<started, finished, pauses, summaries, dpc, active, caught, dataVars, wrapVars>>

\* except Exception as e: the error is printed.
MainExcept ==
  /\ mainpc = "except"
  /\ mainpc' = "summary"
  /\ exc' = "none"
  /\ excAt' = "-"
  /\ UNCHANGED <<mainVars, dpc, active, caught, dataVars, wrapVars>>

\* The summary is printed and main() returns.
MainSummary ==
  /\ mainpc = "summary"
  /\ summaries' = summaries + 1
  /\ mainpc' = "done"
  /\ UNCHANGED <<idx, started, finished, pauses, dpc, exc, excAt, active, caught, dataVars, wrapVars>>

----------------------------------------------------------------------------
(* Harness: the same calls applied to one wrapper of each class            *)

HarnessTag == [demo |-> 0, how |-> "aenter"]

CallBothAenter ==
  /\ Len(trace) < MaxCalls
  /\ LET f == ForgetfulAenter(fw, fhs, HarnessTag)
         q == ProperAenter(pw, phs, HarnessTag) IN
       /\ fw' = f.self /\ fhs' = f.hs /\ fout' = f.out
       /\ pw' = q.self /\ phs' = q.hs /\ pout' = q.out
  /\ trace' = Append(trace, "aenter")
  /\ UNCHANGED <<mainVars, flowVars, dataVars>>

CallBothGet ==
  /\ Len(trace) < MaxCalls
  /\ \E net \in BOOLEAN :
       LET f == ForgetfulGet(fw, fhs, net)
           q == ProperGet(pw, phs, net) IN
         /\ fw' = f.self /\ fhs' = f.hs /\ fout' = f.out
         /\ pw' = q.self /\ phs' = q.hs /\ pout' = q.out
  /\ trace' = Append(trace, "get")
  /\ UNCHANGED <<mainVars, flowVars, dataVars>>

CallBothAexit ==
  /\ Len(trace) < MaxCalls
  /\ LET f == ForgetfulAexit(fw, fhs)
         q == ProperAexit(pw, phs) IN
       /\ fw' = f.self /\ fhs' = f.hs /\ fout' = f.out
       /\ pw' = q.self /\ phs' = q.hs /\ pout' = q.out
  /\ trace' = Append(trace, "aexit")
  /\ UNCHANGED <<mainVars, flowVars, dataVars>>

----------------------------------------------------------------------------
(* Specifications                                                          *)

Init ==
  /\ mainpc = "try"
  /\ idx = 1
  /\ started = <<>>
  /\ finished = <<>>
  /\ pauses = 0
  /\ summaries = 0
  /\ dpc = "idle"
  /\ exc = "none"
  /\ excAt = "-"
  /\ active = {}
  /\ caught = {}
  /\ handles = <<>>
  /\ loc = EmptyLoc
  /\ clients = <<>>
  /\ iter = 0
  /\ withs = {}
  /\ workers = NoWorkers
  /\ coros = 0
  /\ trace = <<>>
  /\ fw = NewWrapper("Forgetful")
  /\ fhs = <<>>
  /\ fout = "none"
  /\ pw = NewWrapper("Proper")
  /\ phs = <<>>
  /\ pout = "none"

Next ==
  \/ MainAwaitDemo
  \/ MainSleep
  \/ MainExcept
  \/ MainSummary
  \/ ExecSnap
  \/ ExecNewBad
  \/ ExecNew
  \/ ExecAttach
  \/ ExecRaw
  \/ ExecAppend
  \/ ExecAenter
  \/ ExecWith
  \/ ExecEndWith
  \/ ExecGet
  \/ ExecAclose
  \/ ExecNoAwait
  \/ ExecRaise
  \/ ExecExcept
  \/ ExecGc
  \/ ExecSleep
  \/ ExecFor
  \/ ExecForIn
  \/ ExecIfMod
  \/ ExecGather
  \/ \E w \in 1..NWorkers : WorkerStart(w)
  \/ \E w \in 1..NWorkers : WorkerWake(w)
  \/ ExecGathered
  \/ ExecRet

\* Safety: every behaviour of the script.
Spec == Init /\ [][Next]_vars

\* The event loop runs a ready coroutine, every sleep and every request (timeout
\* 5.0) ends: some step is taken whenever one is possible.
FairSpec == Spec /\ WF_vars(Next)

WrapNext ==
  \/ CallBothAenter
  \/ CallBothGet
  \/ CallBothAexit

\* Every sequence of at most MaxCalls calls on a fresh wrapper of each class.
WrapSpec == Init /\ [][WrapNext]_vars

----------------------------------------------------------------------------
(* Properties                                                              *)

HandleIds == 1..Len(handles)
HandlesOf(d) == {h \in HandleIds : handles[h].demo = d}
IsPrefix(a, b) == Len(a) <= Len(b) /\ \A i \in 1..Len(a) : a[i] = b[i]
Elems(q) == {q[i] : i \in 1..Len(q)}
FixedOrder == <<1, 2, 3, 4, 5, 6, 7, 8, 11, 12, 13>>

\* Labels of the statements inside an async with block, its exit included.
InWithBlock ==
  {l \in DOMAIN Prog :
     \/ Prog[l].op = "endwith"
     \/ /\ Prog[l].op # "with"
        /\ Prog[l].catch.to \in DOMAIN Prog
        /\ Prog[Prog[l].catch.to].op = "endwith"}
WithHandles == {h \in HandleIds : handles[h].how = "with"}

\* C1: a handle acquired by the __aenter__ of an async with is closed by one
\* awaited aclose, and it is closed whenever control is outside the block
\* that acquired it: after the block and in the enclosing handler alike.
C1_ScopedRelease ==
  \A h \in WithHandles :
    /\ handles[h].acloses <= 1
    /\ (dpc \notin InWithBlock \/ \E g \in WithHandles : g > h)
         => (~handles[h].open /\ handles[h].acloses = 1)

\* C1 witness: the handler of demo 11 runs for a failed request, the handle of
\* the block is closed.
C1_Witness ==
  /\ dpc = "d11_except3"
  /\ exc = "RequestError"
  /\ \E h \in WithHandles :
       handles[h].demo = 11 /\ ~handles[h].open /\ handles[h].acloses = 1

\* C2 as claimed: a run of main() without an escaping exception starts and
\* finishes thirteen demos.
C2_ThirteenDemos ==
  (mainpc = "done" /\ Len(finished) = Len(started))
    => (Len(started) = 13 /\ Len(finished) = 13)

\* C2 amended: a run of main() without an escaping exception starts and
\* finishes eleven demos: 1 to 8 and 11 to 13.
C2_ElevenDemos ==
  (mainpc = "done" /\ Len(finished) = Len(started))
    => (Len(started) = 11 /\ finished = started /\ started = FixedOrder)

\* C2 witness: main() is done and every demo returned.
C2_Witness == mainpc = "done" /\ Len(finished) = Len(started) /\ Len(finished) = 11

\* C3: at most one demo is active; a demo is started only when every demo
\* started before it has been left and the pause after it has elapsed; the
\* demos are started in one fixed order.
C3_Sequential ==
  /\ Cardinality(active) <= 1
  /\ IsPrefix(started, FixedOrder)
  /\ IsPrefix(finished, started)
  /\ Len(started) <= Len(finished) + 1
  /\ Len(started) <= pauses + 1
  /\ pauses <= Len(finished)
  /\ (dpc # "idle") => active = {started[Len(started)]}

\* C3 witness: the last demo runs after ten pauses.
C3_Witness == active = {13} /\ Len(started) = 11 /\ pauses = 10 /\ Len(finished) = 10

\* An exception raised by a raise statement or by a request is in flight.
ProvokedInFlight ==
  exc # "none" /\ excAt \in DOMAIN Prog /\ Prog[excAt].op \in {"raise", "get"}
\* An exception left the demo and reached main().
Escaped ==
  mainpc \in {"except", "summary", "done", "crashed"} /\ Len(finished) < Len(started)
Pos(d) == CHOOSE i \in 1..Len(FixedOrder) : FixedOrder[i] = d

C5_GatherWaitsAll ==
  dpc \in {"d7_gc", "d7_after", "d7_ret"}
    => \A w \in 1..NWorkers : workers[w].st = "done"

\* C5 witness: demo 7 continues after the gather.
C5_Witness == dpc = "d7_gc" /\ \A w \in 1..NWorkers : workers[w].st = "done"

AllWorkersDone == \A w \in 1..NWorkers : workers[w].st = "done"
WorkerClients == {workers[w].client : w \in 1..NWorkers}

\* C6: when all workers have finished, the handles created by demo 7 are
\* exactly the workers' own, one per worker, all open and never closed, and
\* they stay open; a step of one worker changes no other worker and no
\* existing handle.
C6_WorkersLeakOwn ==
  /\ [](AllWorkersDone =>
          /\ Cardinality(WorkerClients) = NWorkers
          /\ WorkerClients = HandlesOf(7)
          /\ \A h \in WorkerClients : handles[h].open /\ handles[h].acloses = 0)
  /\ []((7 \in Elems(finished)) =>
          /\ Cardinality(HandlesOf(7)) = NWorkers
          /\ \A h \in HandlesOf(7) : handles[h].open /\ handles[h].acloses = 0)
  /\ [][\A w \in 1..NWorkers :
          (Op = "gathered" /\ workers'[w] # workers[w])
            => /\ \A v \in (1..NWorkers) \ {w} : workers'[v] = workers[v]
               /\ \A h \in HandleIds : handles'[h] = handles[h]
               /\ Len(handles') <= Len(handles) + 1]_vars

\* C6 witness: every worker has finished and demo 7 has not yet continued.
C6_Witness == dpc = "d7_gathered" /\ AllWorkersDone /\ Cardinality(HandlesOf(7)) = NWorkers

OpenUntouched(d) ==
  /\ HandlesOf(d) # {}
  /\ \A h \in HandlesOf(d) : handles[h].how # "with" => (handles[h].open /\ handles[h].acloses = 0)

\* C7: the aclose written after the raise of demo 3 is never reached and the
\* handle of demo 3 is open in the handler and up to the return; in demo 12,
\* once the first request has raised, the aclose after it is not executed and
\* the handle is open in the handler and up to the return.
C7_CleanupUnreachable ==
  /\ dpc # "d3_aclose"
  /\ (dpc \in {"d3_except", "d3_gc", "d3_after", "d3_ret"}) => OpenUntouched(3)
  /\ (dpc = "d12_except1" \/ (Len(started) = Pos(12) /\ "d12_except1" \in caught))
       => (dpc # "d12_aclose" /\ OpenUntouched(12))

\* C7 witness: demo 12 returns after its first request raised.
C7_Witness == dpc = "d12_ret" /\ "d12_except1" \in caught /\ OpenUntouched(12)

\* C8: in demo 8 the handle is open and untouched from its creation up to the
\* awaited aclose, the aclose without await included; it is closed, by one
\* aclose, when demo 8 returns.
C8_ForgottenAwait ==
  /\ (dpc \in {"d8_noawait", "d8_gc", "d8_after", "d8_aclose"})
       => (Cardinality(HandlesOf(8)) = 1 /\ OpenUntouched(8))
  /\ (dpc = "d8_ret" \/ 8 \in Elems(finished))
       => /\ Cardinality(HandlesOf(8)) = 1
          /\ \A h \in HandlesOf(8) : ~handles[h].open /\ handles[h].acloses = 1

\* C8 witness: the 'after' snapshot is due, the un-awaited coroutine exists.
C8_Witness == dpc = "d8_after" /\ coros = 1 /\ OpenUntouched(8)

\* C9: every run of main() ends, and it ends with the summary printed once,
\* whether or not an exception left a demo.
C9_AlwaysSummary ==
  /\ <>(mainpc = "done")
  /\ [](summaries <= 1)
  /\ [](mainpc = "done" => summaries = 1)

\* C9 witness: main() is done after an exception left a demo.
C9_Witness == mainpc = "done" /\ summaries = 1 /\ Len(finished) < Len(started)

SameWrapperState == fw.client = pw.client /\ fhs = phs

\* C10 as claimed: after every sequence of calls the two wrappers are in the
\* same state and gave the same outcome.
C10_Equivalent == SameWrapperState /\ fout = pout

\* C10 amended: after every sequence of calls the two wrappers hold the same
\* handle in the same state, and they gave the same outcome except for an
\* __aexit__ on a wrapper that holds no handle, where Forgetful raises
\* AttributeError and Proper returns normally.
C10_EquivalentButBareExit ==
  /\ SameWrapperState
  /\ fout # pout =>
       /\ trace[Len(trace)] = "aexit"
       /\ fw.client = None
       /\ fout = "AttributeError"
       /\ pout = "ok"
  /\ (trace # <<>> /\ trace[Len(trace)] = "aexit" /\ fw.client = None)
       => (fout = "AttributeError" /\ pout = "ok")

\* C10 witness: a handle was acquired, used and released on both wrappers.
C10_Witness ==
  /\ Len(trace) >= 3
  /\ trace[Len(trace)] = "aexit"
  /\ fw.client # None
  /\ ~fhs[fw.client].open
  /\ fout = "ok"
  /\ pout = "ok"

\* C11: in demo 11 the get on a wrapper that was never entered raises
\* AttributeError, creates no handle and leaves the wrapper without one; the
\* handler of demo 11 runs next and the demo goes on with its second part.
C11_GetWithoutEnter ==
  /\ [](dpc \in {"d11_get1", "d11_except1"} =>
          /\ loc["client"] = NewWrapper("Forgetful")
          /\ HandlesOf(11) = {})
  /\ [](dpc = "d11_except1" => (exc = "AttributeError" /\ excAt = "d11_get1"))
  /\ [][dpc = "d11_get1" =>
          /\ dpc' = "d11_except1"
          /\ exc' = "AttributeError"
          /\ handles' = handles
          /\ loc' = loc
          /\ mainpc' = "awaiting"]_vars
  /\ [][dpc = "d11_except1" =>
          /\ dpc' = "d11_new2"
          /\ exc' = "none"
          /\ mainpc' = "awaiting"
          /\ active' = {11}]_vars

\* C11 witness: the handler runs for the AttributeError, no handle exists.
C11_Witness ==
  /\ dpc = "d11_except1"
  /\ exc = "AttributeError"
  /\ loc["client"].client = None
  /\ HandlesOf(11) = {}

\* C12: once an exception has left a demo, no demo is started any more:
\* main() goes from the failing demo to its except clause, then to the
\* summary, then ends; the demos started are always a prefix of the fixed
\* order.
C12_EscapeEndsRun ==
  /\ [](IsPrefix(started, FixedOrder))
  /\ [](Escaped => (dpc = "idle" /\ active = {}))
  /\ [][Escaped => (started' = started /\ finished' = finished /\ dpc' = "idle")]_vars
  /\ [][(mainpc = "awaiting" /\ dpc' = "idle" /\ finished' = finished) => mainpc' = "except"]_vars
  /\ [][mainpc = "except" => mainpc' = "summary"]_vars
  /\ [][mainpc = "summary" => mainpc' = "done"]_vars

\* C12 witness: the summary is due after demo 5 failed; demos 6 to 13 never ran.
C12_Witness ==
  /\ mainpc = "summary"
  /\ started = <<1, 2, 3, 4, 5>>
  /\ finished = <<1, 2, 3, 4>>

\* The last label and the number of clients of the demos that clean up.
RetLabel == (5 :> "d5_ret") @@ (6 :> "d6_ret") @@ (8 :> "d8_ret") @@ (13 :> "d13_ret")
Created == (5 :> 50) @@ (6 :> 10) @@ (8 :> 1) @@ (13 :> 1)
OpenOf(d) == {h \in HandlesOf(d) : handles[h].open}

\* C13: when demo 5, 6, 8 or 13 returns, the handles it created (50, 10, 1
\* and 1) are all closed, and they stay closed; a running demo changes no
\* handle of another demo, so as many handles are open after it as before;
\* at most one handle of demo 6 is open at a time.
C13_LeakNeutral ==
  /\ [](\A d \in {5, 6, 8, 13} :
          (dpc = RetLabel[d] \/ d \in Elems(finished))
            => (Cardinality(HandlesOf(d)) = Created[d] /\ OpenOf(d) = {}))
  /\ [](Cardinality(OpenOf(6)) <= 1)
  /\ [][\A h \in HandleIds :
          (dpc = "idle" \/ handles[h].demo # started[Len(started)])
            => handles'[h] = handles[h]]_vars

\* C13 witness: demo 5 returns with its fifty handles closed.
C13_Witness ==
  /\ dpc = "d5_ret"
  /\ Cardinality(HandlesOf(5)) = 50
  /\ OpenOf(5) = {}

====
